---- MODULE Spec2Model ----
(***************************************************************************)
(* Model of the in-process worker pool (backend/performance/               *)
(* worker_manager.py) and of the synchronous bridge run_sync_in_worker     *)
(* (backend/app.py, backend/run_app.py).                                   *)
(*                                                                         *)
(* One WorkerManager with K Worker threads sharing one queue.Queue.  Jobs  *)
(* are submitted either directly with submit_job or through                *)
(* run_sync_in_worker, which wraps the caller's function in _wrap and      *)
(* blocks the caller on a threading.Event.  One thread may call            *)
(* shutdown().                                                             *)
(*                                                                         *)
(* PostGenerator (backend/services/text_generation/post_generator.py):     *)
(* generate_post is run by the workers of the pool (app.py, generate_posts *)
(* through run_sync_in_worker); it hands the model call to its own         *)
(* ThreadPoolExecutor and waits for the future with a timeout.  Time is    *)
(* counted in ticks of the waiting caller.                                 *)
(*                                                                         *)
(* FlanT5Service (flan_t5_service.py): load_model under _loading_lock and  *)
(* generate_text with the service's GenerationConfig object.               *)
(* PostGenerator.generate_multiple_posts with the caller's base_config.    *)
(* PostStorage (post_storage.py): save_post, update_post and delete_post   *)
(* on the JSON file under _file_lock.  Each has a specification of its     *)
(* own over its own variables; the threads calling them are numbered like  *)
(* the workers of the pool.                                                *)
(***************************************************************************)
EXTENDS Integers, Sequences, FiniteSets, TLC

\* ---------------------------------------------------------------- bounds
\* max_workers given to WorkerManager.__init__
K == 2
\* number of jobs submitted during one run of the model
MaxJobs == 3

\* number of generate_post calls made during one run of the model
MaxCalls == 3
\* the largest config.generation_timeout given to a call, in ticks
MaxT == 1

Workers == 1..K
JobIds == 1..MaxJobs

\* ThreadPoolExecutor(max_workers=2) of PostGenerator.__init__
max_workers == 2

\* Mutant: an executor with one thread more.
ExecThreadsMore == 1..(max_workers + 1)

\* the threads of PostGenerator.executor
ExecThreads == 1..max_workers

\* the values of config.generation_timeout given by callers: negative,
\* zero, positive
Timeouts == {0 - 1, 0, MaxT}

\* epc of an executor thread running a call whose caller has stopped
\* waiting for it
Abandoned == K + 1

\* an item of the executor's queue whose future was cancelled
Cancelled == 0

\* result['status'] of generate_post; "propagated" stands for a call left
\* by an exception
Statuses == {"success", "timeout", "failed", "propagated"}

\* the content argument of generate_post: empty (or blank), or a text
Contents == {"empty", "text"}

\* the counters of PostGenerator.generation_stats
Counters == {"total_generated", "successful", "failed", "timeout"}

\* dict.get('result') on a container that has no 'result' key; an
\* optional argument that is omitted
None == 0

\* GenerationConfig.max_length, the default of the service
DefaultMaxLength == 512

\* The max_length arguments of generate_text: omitted (regenerate_post,
\* app.py:419), PostGenerationConfig.max_length of generate_post (280 by
\* default, 280 or 500 in generate_posts, app.py:341).
MaxLengthArgs == {None, 280, 500}

\* number of tones given to one generate_multiple_posts call, at most
MaxTones == 2

\* some of the members of PostTone
Tones == {"witty", "professional", "casual"}

\* base_config=None, the default of generate_multiple_posts
NoConfig == "None"

\* the lists of at most MaxTones tones
ToneLists == UNION {[1..n -> Tones] : n \in 0..MaxTones}

\* number of posts saved, at most
MaxPosts == 2

\* the post ids: str(uuid.uuid4()), each call a new one
PostIds == 1..MaxPosts

\* some platforms, the keys of a post's 'posts' dict
Platforms == {"twitter", "linkedin"}

\* the entry of a post id that is not a key of the file's dict
Absent == [pf \in Platforms |-> "absent"]

\* the 'posts' dict of a post as save_post stores it
NewPost == [pf \in Platforms |-> "generated"]

\* the contents of the file
Files == [PostIds -> {Absent} \cup [Platforms -> {"generated", "regenerated"}]]

\* the operations of PostStorage that write the file, with their
\* arguments (save_post gets its post id inside)
StoreOps ==
    [op : {"save_post"}, id : {0}, platform : {"none"}]
        \cup [op : {"update_post"}, id : PostIds, platform : Platforms]
        \cup [op : {"delete_post"}, id : PostIds, platform : {"none"}]

NoOp == [op |-> "none", id |-> 0, platform |-> "none"]

\* how a load_model call ends: the 'status' of the dict it returns, or
\* the exception it raises
LoadStatuses == {"loaded", "already_loaded", "ModelLoadingError"}

\* How a job's callable ends: it returns, raises an Exception subclass, or
\* raises a BaseException that is not an Exception (SystemExit, ...).
Behaviours == {"ok", "exc", "base"}

\* The value the function fn of bridged call id returns: the functions of
\* different calls return different values.
Val(id) == id

VARIABLES
    stop,        \* Worker._stop, the Event of each worker
    wpc,         \* position of each worker thread in Worker.run
    cur,         \* local variable job of Worker.run (0: none)
    job_queue,   \* WorkerManager.job_queue, ids of the queued jobs
    unfinished,  \* queue.Queue.unfinished_tasks
    njobs,       \* number of jobs submitted so far
    jobs,        \* the Job objects by id: "plain" for a function given to
                 \* submit_job, "bridge" for a _wrap closure
    late,        \* the job was submitted after shutdown() had returned
    outcome,     \* how the job's callable ended: "none" before it did,
                 \* then "ok" (it returned) or "raised"
    startCount,  \* how many times a worker began executing the job
    runBy,       \* the worker executing the job now (0: none)
    done,        \* the worker finished the job (its finally block ran)
    container,   \* run_sync_in_worker: container.get('result') per call
    completed,   \* run_sync_in_worker: the completed Event per call
    callerPc,    \* run_sync_in_worker: position of the calling thread
    ret,         \* run_sync_in_worker: the value returned to the caller
    spc,         \* position of the thread that calls shutdown()
    sidx,        \* loop index of shutdown()
    submittedAtShutdown, \* history, kept under SpecH only: the number
                 \* of jobs submitted before shutdown() was called
    gpc,         \* generate_post: position of the worker thread running it
    gpath,       \* generate_post: the branch taken after the try body
    gstep,       \* generate_post: index of the counter being incremented
    reg,         \* generate_post: the counter value read by a `+= 1`
    budget,      \* config.generation_timeout of the call the worker
                 \* has submitted
    elapsed,     \* ticks since start_time of the worker's call
    ncalls,      \* number of generate_post calls made so far
    generation_stats,        \* PostGenerator.generation_stats, the counters
    average_generation_time, \* generation_stats['average_generation_time']
                 \* as a fraction <<numerator, denominator>>
    fut,         \* state of the Future of the worker's call in progress
    work_queue,  \* executor._work_queue: the worker whose call the item
                 \* is, or Cancelled
    epc,         \* the call each executor thread is running: 0 for none,
                 \* the calling worker, or Abandoned
    generating,  \* number of generate_text calls in progress
    returns,     \* history: number of calls returned, by result['status']
    success_time, \* history: sum of result['generation_time'] of the
                 \* calls returned with status 'success'
    begunAfterStop, \* history: the number of jobs each worker began
                 \* executing after its stop flag was set
    overdue,     \* the job has been executing for longer than its
                 \* Job.timeout
    loading_lock, \* FlanT5Service._loading_lock: the thread holding it
                 \* (0: free)
    model_loaded, \* FlanT5Service._model_loaded
    lpc,         \* load_model: position of each calling thread
    lstatus,     \* load_model: how the thread's last call ended
    nloads,      \* number of load_model calls made so far
    model_loads, \* history: how many times the model was loaded
    lret,        \* history: number of load_model calls ended, by status
    generation_config, \* FlanT5Service.generation_config.max_length
    tpc,         \* generate_text: position of each calling thread
    targ,        \* generate_text: the max_length argument of the thread's
                 \* call (None: omitted)
    tused,       \* the max_length the thread's last call gave to
                 \* model.generate (None: it has not got there)
    ngen,        \* number of generate_text calls made so far
    mpc,         \* generate_multiple_posts: position of the calling thread
    tones,       \* generate_multiple_posts: the argument tones
    base_config, \* the tone of the caller's base_config object (NoConfig:
                 \* base_config is None)
    base_at_call, \* history: base_config as it was when the call was made
    mtone,       \* config.tone of the iteration in progress
    results,     \* generate_multiple_posts: the list results, each entry
                 \* the tone asked for and the status of the result
    file_lock,   \* PostStorage._file_lock: the thread holding it (0: free)
    data_file,   \* the JSON file: for each post id its 'posts' dict, or
                 \* Absent
    stpc,        \* PostStorage: position of each calling thread
    sop,         \* PostStorage: the operation the thread is in and its
                 \* arguments
    sdata,       \* PostStorage: the local variable data of the operation
    nstore,      \* number of PostStorage operations called so far
    next_post,   \* number of post ids generated so far
    nsaved,      \* history: number of save_post calls that returned
    expected     \* history: the operations that returned, applied one
                 \* after the other in the order they returned

queueVars == <<job_queue, unfinished, njobs, jobs, late>>
execVars == <<outcome, startCount, runBy, done>>
bridgeVars == <<container, completed, callerPc, ret>>
shutdownVars == <<spc, sidx, submittedAtShutdown>>

poolVars == <<stop, wpc, cur, queueVars, execVars, bridgeVars, shutdownVars>>
callVars == <<gpc, gpath, gstep, reg, budget, elapsed, ncalls>>
statVars == <<generation_stats, average_generation_time>>
futVars == <<fut, work_queue, epc, generating>>
retVars == <<returns, success_time>>
pgVars == <<callVars, statVars, futVars, retVars>>

traceVars == <<begunAfterStop, overdue>>

\* what the operations of the worker pool leave alone, and what those of
\* the PostGenerator leave alone
loadVars == <<loading_lock, model_loaded, lpc, lstatus, nloads, model_loads,
              lret>>
genVars == <<generation_config, tpc, targ, tused, ngen>>
multiVars == <<mpc, tones, base_config, base_at_call, mtone, results>>
storeVars == <<file_lock, data_file, stpc, sop, sdata, nstore, next_post,
               nsaved, expected>>
svcVars == <<loadVars, genVars, multiVars, storeVars>>
outsidePool == <<pgVars, traceVars, svcVars>>
outsidePG == <<poolVars, traceVars, svcVars>>
outsideLoad == <<poolVars, pgVars, traceVars, genVars, multiVars, storeVars>>
outsideGen == <<poolVars, pgVars, traceVars, loadVars, multiVars, storeVars>>
outsideMulti == <<poolVars, pgVars, traceVars, loadVars, genVars, storeVars>>
outsideStore == <<poolVars, pgVars, traceVars, loadVars, genVars, multiVars>>

vars == <<poolVars, pgVars, traceVars, svcVars>>

\* ------------------------------------------------------------- helpers
RangeOf(s) == {s[i] : i \in 1..Len(s)}

InQueue(j) == j \in RangeOf(job_queue)

Submitted(j) == j <= njobs

\* Worker.run: `except Exception` catches what the callable raised
Caught(b) == b = "exc"

\* threading.Thread has terminated
Stopped(w) == wpc[w] = "stopped"

\* a job.func() call is in progress on worker w
Executing(w) == wpc[w] \in {"func", "set"}

\* ---------------------------------------------------------------- Init
\* WorkerManager.__init__: K workers started, empty queue.
Init ==
    /\ stop = [w \in Workers |-> FALSE]
    /\ wpc = [w \in Workers |-> "loop"]
    /\ cur = [w \in Workers |-> 0]
    /\ job_queue = <<>>
    /\ unfinished = 0
    /\ njobs = 0
    /\ jobs = [j \in JobIds |-> "none"]
    /\ late = [j \in JobIds |-> FALSE]
    /\ outcome = [j \in JobIds |-> "none"]
    /\ startCount = [j \in JobIds |-> 0]
    /\ runBy = [j \in JobIds |-> 0]
    /\ done = [j \in JobIds |-> FALSE]
    /\ container = [j \in JobIds |-> None]
    /\ completed = [j \in JobIds |-> FALSE]
    /\ callerPc = [j \in JobIds |-> "none"]
    /\ ret = [j \in JobIds |-> None]
    /\ spc = "idle"
    /\ sidx = 1
    /\ submittedAtShutdown = 0
    /\ gpc = [w \in Workers |-> "idle"]
    /\ gpath = [w \in Workers |-> "none"]
    /\ gstep = [w \in Workers |-> 0]
    /\ reg = [w \in Workers |-> 0]
    /\ budget = [w \in Workers |-> 0]
    /\ elapsed = [w \in Workers |-> 0]
    /\ ncalls = 0
    /\ generation_stats = [c \in Counters |-> 0]
    /\ average_generation_time = <<0, 1>>
    /\ fut = [w \in Workers |-> "none"]
    /\ work_queue = <<>>
    /\ epc = [t \in ExecThreads |-> 0]
    /\ generating = 0
    /\ returns = [r \in Statuses |-> 0]
    /\ success_time = 0
    /\ begunAfterStop = [w \in Workers |-> 0]
    /\ overdue = [j \in JobIds |-> FALSE]
    /\ loading_lock = 0
    /\ model_loaded = FALSE
    /\ lpc = [c \in Workers |-> "idle"]
    /\ lstatus = [c \in Workers |-> "none"]
    /\ nloads = 0
    /\ model_loads = 0
    /\ lret = [r \in LoadStatuses |-> 0]
    /\ generation_config = DefaultMaxLength
    /\ tpc = [c \in Workers |-> "idle"]
    /\ targ = [c \in Workers |-> None]
    /\ tused = [c \in Workers |-> None]
    /\ ngen = 0
    /\ mpc = "idle"
    /\ tones = <<>>
    /\ base_config = NoConfig
    /\ base_at_call = NoConfig
    /\ mtone = NoConfig
    /\ results = <<>>
    /\ file_lock = 0
    /\ data_file = [i \in PostIds |-> Absent]
    /\ stpc = [c \in Workers |-> "idle"]
    /\ sop = [c \in Workers |-> NoOp]
    /\ sdata = [c \in Workers |-> [i \in PostIds |-> Absent]]
    /\ nstore = 0
    /\ next_post = 0
    /\ nsaved = 0
    /\ expected = [i \in PostIds |-> Absent]

\* ------------------------------------------------------- WorkerManager
\* Mutant: queue.Queue(maxsize=1), whose put() blocks while the queue is
\* full.
PutBounded(kind) ==
    /\ njobs < MaxJobs
    /\ job_queue = <<>>
    /\ njobs' = njobs + 1
    /\ jobs' = [jobs EXCEPT ![njobs + 1] = kind]
    /\ late' = [late EXCEPT ![njobs + 1] = (spc = "returned")]
    /\ job_queue' = Append(job_queue, njobs + 1)
    /\ unfinished' = unfinished + 1

\* job_queue.put(Job(...)) of submit_job on the unbounded queue.Queue():
\* appends, never blocks.  (njobs < MaxJobs bounds the run of the model.)
Put(kind) ==
    /\ njobs < MaxJobs
    /\ njobs' = njobs + 1
    /\ jobs' = [jobs EXCEPT ![njobs + 1] = kind]
    /\ late' = [late EXCEPT ![njobs + 1] = (spc = "returned")]
    /\ job_queue' = Append(job_queue, njobs + 1)
    /\ unfinished' = unfinished + 1

\* WorkerManager.submit_job called directly with a plain function.
submit_job ==
    /\ Put("plain")
    /\ UNCHANGED <<outsidePool, stop, wpc, cur, execVars, bridgeVars,
                   shutdownVars>>

\* run_sync_in_worker up to completed.wait(): fresh Event and container,
\* _wrap submitted, caller blocked.
run_sync_in_worker ==
    /\ Put("bridge")
    /\ callerPc' = [callerPc EXCEPT ![njobs + 1] = "wait"]
    /\ UNCHANGED <<outsidePool, stop, wpc, cur, execVars, container, completed,
                   ret, shutdownVars>>

\* Mutant: one container shared by every call instead of one per call.
ContainerGetShared(c, j) == c[1]

\* container.get('result') of the call's own container
ContainerGet(c, j) == c[j]

\* run_sync_in_worker after completed.wait(): return container.get('result')
RunSyncReturn(j) ==
    /\ callerPc[j] = "wait"
    /\ completed[j]
    /\ callerPc' = [callerPc EXCEPT ![j] = "returned"]
    /\ ret' = [ret EXCEPT ![j] = ContainerGet(container, j)]
    /\ UNCHANGED outsidePool
    /\ UNCHANGED <<stop, wpc, cur, queueVars, execVars, container, completed,
                   shutdownVars>>

\* -------------------------------------------------------------- Worker
\* Mutant: `while True`, a loop that does not look at the stop flag.
WorkerLoopDeaf(w) ==
    /\ wpc[w] = "loop"
    /\ wpc' = [wpc EXCEPT ![w] = "get"]
    /\ UNCHANGED outsidePool
    /\ UNCHANGED <<stop, cur, queueVars, execVars, bridgeVars, shutdownVars>>

\* `while not self._stop.is_set()`
WorkerLoop(w) ==
    /\ wpc[w] = "loop"
    /\ wpc' = [wpc EXCEPT ![w] = IF stop[w] THEN "stopped" ELSE "get"]
    /\ UNCHANGED outsidePool
    /\ UNCHANGED <<stop, cur, queueVars, execVars, bridgeVars, shutdownVars>>

\* Mutant: queue.LifoQueue, whose get() takes the item put last.
GetIndexLifo(q) == Len(q)

\* queue.Queue._get is deque.popleft(): the position of the item that
\* get() takes
GetIndex(q) == 1

\* the queue after the item at position i was taken
RemoveAt(q, i) == SubSeq(q, 1, i - 1) \o SubSeq(q, i + 1, Len(q))

\* `job = self.job_queue.get(timeout=1)`: the head of the queue, or
\* queue.Empty and `continue`.
WorkerGet(w) ==
    /\ wpc[w] = "get"
    /\ IF job_queue # <<>>
       THEN /\ cur' = [cur EXCEPT ![w] = job_queue[GetIndex(job_queue)]]
            /\ job_queue' = RemoveAt(job_queue, GetIndex(job_queue))
            /\ wpc' = [wpc EXCEPT ![w] = "start"]
       ELSE /\ wpc' = [wpc EXCEPT ![w] = "loop"]
            /\ UNCHANGED <<cur, job_queue>>
    /\ UNCHANGED <<outsidePool, stop, unfinished, njobs, jobs, late, execVars,
                   bridgeVars, shutdownVars>>

\* Mutant: the worker hands the job off and polls again without waiting
\* for the job to end.
WorkerStartAsync(w) ==
    /\ wpc[w] = "start"
    /\ startCount' = [startCount EXCEPT ![cur[w]] = @ + 1]
    /\ runBy' = [runBy EXCEPT ![cur[w]] = w]
    /\ wpc' = [wpc EXCEPT ![w] = "loop"]
    /\ UNCHANGED <<outsidePool, stop, cur, queueVars, outcome, done, bridgeVars,
                   shutdownVars>>

\* `start = time.time()`, the "starting job" log line and the entry of
\* `job.func()`: what they change in the pool.
Begin(w) ==
    /\ wpc[w] = "start"
    /\ startCount' = [startCount EXCEPT ![cur[w]] = @ + 1]
    /\ runBy' = [runBy EXCEPT ![cur[w]] = w]
    /\ wpc' = [wpc EXCEPT ![w] = "func"]
    /\ UNCHANGED <<stop, cur, queueVars, outcome, done, bridgeVars,
                   shutdownVars>>

\* The job begins executing on w.
WorkerStart(w) ==
    /\ Begin(w)
    /\ UNCHANGED outsidePool

\* The job begins executing on w, and the history variable counts it if
\* the stop flag of w is set by now.
WorkerStartT(w) ==
    /\ Begin(w)
    /\ begunAfterStop' = [begunAfterStop EXCEPT ![w] =
                             IF stop[w] THEN @ + 1 ELSE @]
    /\ UNCHANGED <<pgVars, svcVars, overdue>>

\* The except and finally clauses of Worker.run after job.func() ended as
\* b: task_done(); an exception that is not caught leaves run() and ends
\* the thread, otherwise the loop goes on.
AfterFunc(w, b) ==
    /\ outcome' = [outcome EXCEPT ![cur[w]] = IF b = "ok" THEN "ok" ELSE "raised"]
    /\ unfinished' = unfinished - 1
    /\ done' = [done EXCEPT ![cur[w]] = TRUE]
    /\ runBy' = [runBy EXCEPT ![cur[w]] = 0]
    /\ cur' = [cur EXCEPT ![w] = 0]
    /\ wpc' = [wpc EXCEPT ![w] =
                 IF b = "ok" \/ Caught(b) THEN "loop" ELSE "stopped"]

\* Mutant: _wrap signals without having stored the result.
WrapStoreSkipped(c, j) == c

\* `container['result'] = fn()` of _wrap, for the call j
WrapStore(c, j) == [c EXCEPT ![j] = Val(j)]

\* `job.func()` runs and ends in one of the Behaviours.  A plain function
\* runs to its end.  _wrap evaluates fn(): when fn returns, _wrap stores
\* the value in the container and goes on to completed.set(); when fn
\* raises, _wrap is left before the store and before completed.set().
WorkerFunc(w) ==
    /\ wpc[w] = "func"
    /\ \E b \in Behaviours :
         IF b = "ok" /\ jobs[cur[w]] = "bridge"
         THEN /\ container' = WrapStore(container, cur[w])
              /\ wpc' = [wpc EXCEPT ![w] = "set"]
              /\ UNCHANGED <<cur, unfinished, execVars>>
         ELSE /\ AfterFunc(w, b)
              /\ UNCHANGED <<startCount, container>>
    /\ UNCHANGED outsidePool
    /\ UNCHANGED <<stop, job_queue, njobs, jobs, late, completed, callerPc,
                   ret, shutdownVars>>

\* `completed.set()` of _wrap, which then returns to Worker.run
WorkerSet(w) ==
    /\ wpc[w] = "set"
    /\ completed' = [completed EXCEPT ![cur[w]] = TRUE]
    /\ AfterFunc(w, "ok")
    /\ UNCHANGED outsidePool
    /\ UNCHANGED <<stop, job_queue, njobs, jobs, late, startCount, container,
                   callerPc, ret, shutdownVars>>

WorkerStep(w) ==
    \/ WorkerLoop(w)
    \/ WorkerGet(w)
    \/ WorkerStart(w)
    \/ WorkerFunc(w)
    \/ WorkerSet(w)

\* Worker.run with the history variable kept, for jobs given to
\* submit_job directly.
WorkerStepT(w) ==
    \/ WorkerLoop(w)
    \/ WorkerGet(w)
    \/ WorkerStartT(w)
    \/ WorkerFunc(w)

\* Mutant: a worker that enforces Job.timeout: when the time is over the
\* callable is interrupted, the job reported as timed out and the worker
\* polls again.
JobOverrunInterrupts(j) ==
    /\ runBy[j] # 0
    /\ ~overdue[j]
    /\ overdue' = [overdue EXCEPT ![j] = TRUE]
    /\ outcome' = [outcome EXCEPT ![j] = "timeout"]
    /\ done' = [done EXCEPT ![j] = TRUE]
    /\ unfinished' = unfinished - 1
    /\ wpc' = [wpc EXCEPT ![runBy[j]] = "loop"]
    /\ cur' = [cur EXCEPT ![runBy[j]] = 0]
    /\ runBy' = [runBy EXCEPT ![j] = 0]
    /\ UNCHANGED <<pgVars, svcVars, begunAfterStop, stop, job_queue, njobs,
                   jobs, late, startCount, bridgeVars, shutdownVars>>

\* The clock passes start + job.timeout while job.func() is running on a
\* worker.  Worker.run stores the Job's timeout with the job and never
\* reads it: nothing of the pool changes.
JobOverrun(j) ==
    /\ runBy[j] # 0
    /\ ~overdue[j]
    /\ overdue' = [overdue EXCEPT ![j] = TRUE]
    /\ UNCHANGED <<poolVars, pgVars, svcVars, begunAfterStop>>

\* ------------------------------------------------------------ shutdown
\* shutdown() is entered.
ShutdownCall ==
    /\ spc = "idle"
    /\ spc' = "stop"
    /\ sidx' = 1
    /\ UNCHANGED <<outsidePool, stop, wpc, cur, queueVars, execVars, bridgeVars,
                   submittedAtShutdown>>

\* shutdown() is entered while jobs are waiting in the queue, and the
\* history variable records them.
ShutdownCallH ==
    /\ spc = "idle"
    /\ job_queue # <<>>
    /\ spc' = "stop"
    /\ sidx' = 1
    /\ submittedAtShutdown' = njobs
    /\ UNCHANGED <<outsidePool, stop, wpc, cur, queueVars, execVars,
                   bridgeVars>>

\* `for w in self.workers: w.stop()`
ShutdownStop ==
    /\ spc = "stop"
    /\ stop' = [stop EXCEPT ![sidx] = TRUE]
    /\ IF sidx = K
       THEN spc' = "join" /\ sidx' = 1
       ELSE spc' = spc /\ sidx' = sidx + 1
    /\ UNCHANGED <<outsidePool, wpc, cur, queueVars, execVars, bridgeVars,
                   submittedAtShutdown>>

\* Mutant: join that does not wait (join(timeout=0), or no join at all).
JoinEndsNoWait(w) == TRUE

\* w.join() blocks until the thread of w has ended
JoinEnds(w) == Stopped(w)

\* `for w in self.workers: w.join()`.  On an interpreter whose
\* threading.Thread has a _stop() method, join() calls self._stop() once
\* the thread has ended, and Worker.__init__ replaced that by an Event:
\* TypeError leaves shutdown() at the first join.  On an interpreter
\* without Thread._stop every join returns.
ShutdownJoin ==
    /\ spc = "join"
    /\ JoinEnds(sidx)
    /\ \/ /\ sidx = 1
          /\ spc' = "raised"
          /\ sidx' = sidx
       \/ IF sidx = K
          THEN spc' = "returned" /\ sidx' = sidx
          ELSE spc' = spc /\ sidx' = sidx + 1
    /\ UNCHANGED <<outsidePool, stop, wpc, cur, queueVars, execVars, bridgeVars,
                   submittedAtShutdown>>

\* ------------------------------------------------------- PostGenerator
RECURSIVE GCD(_, _)
GCD(a, b) == IF b = 0 THEN a ELSE GCD(b, a % b)

\* a fraction in lowest terms (n >= 0, d > 0)
Reduced(n, d) == <<n \div GCD(n, d), d \div GCD(n, d)>>

\* Future.done() of the call of worker w
FutDone(w) == fut[w] \in {"result", "exception"}

\* Mutant: TextGenerationError is not handled and leaves generate_post.
HandlerNarrow(e) ==
    IF e = "PostGenerationTimeout" THEN "timeout"
    ELSE IF e = "ValueError" THEN "failed" ELSE "propagated"

\* The except clauses of generate_post: `except PostGenerationTimeout`,
\* then `except Exception`.  The exceptions raised inside the try block
\* are ValueError (validation of content), TextGenerationError
\* (flan_t5_service.generate_text wraps every Exception in it) and
\* PostGenerationTimeout (_generate_with_timeout): each is an Exception.
Handler(e) == IF e = "PostGenerationTimeout" THEN "timeout" ELSE "failed"

\* The counters a branch of generate_post increments, in program order.
\* The timeout branch begins with the increment of _generate_with_timeout
\* (line 145) and goes on with those of the except clause (298, 299).
Increments(path) ==
    CASE path = "success" -> <<"total_generated", "successful">>
      [] path = "timeout" -> <<"timeout", "total_generated", "timeout">>
      [] path = "failed" -> <<"total_generated", "failed">>
      [] OTHER -> <<>>

\* generate_post ends on worker w with result['status'] = st, or is left
\* by an exception.
Return(w, st) ==
    /\ gpc' = [gpc EXCEPT ![w] = "idle"]
    /\ gpath' = [gpath EXCEPT ![w] = "none"]
    /\ gstep' = [gstep EXCEPT ![w] = 0]
    /\ budget' = [budget EXCEPT ![w] = 0]
    /\ elapsed' = [elapsed EXCEPT ![w] = 0]
    /\ returns' = [returns EXCEPT ![st] = @ + 1]
    /\ success_time' = IF st = "success" THEN success_time + elapsed[w]
                       ELSE success_time

\* Control leaves the try body of generate_post on branch path: the first
\* `+= 1` of the branch is next, or the exception leaves generate_post.
\* The timeout is of no use any more, and the time elapsed is used by the
\* success branch only (generation_time, line 263).
Branch(w, path) ==
    IF path = "propagated"
    THEN Return(w, path)
    ELSE /\ gpc' = [gpc EXCEPT ![w] = "read"]
         /\ gpath' = [gpath EXCEPT ![w] = path]
         /\ gstep' = [gstep EXCEPT ![w] = 1]
         /\ budget' = [budget EXCEPT ![w] = 0]
         /\ elapsed' = [elapsed EXCEPT ![w] =
                           IF path = "success" THEN @ ELSE 0]
         /\ UNCHANGED retVars

\* generate_post is called on worker w with some content and some
\* config.generation_timeout: start_time is taken, the content validated
\* and, if it is valid, generate_text submitted to the executor
\* (lines 233-258, 138); the caller then waits in future.result.
generate_post(w) ==
    /\ gpc[w] = "idle"
    /\ ncalls < MaxCalls
    /\ ncalls' = ncalls + 1
    /\ \E content \in Contents, timeout \in Timeouts :
         IF content = "empty"
         THEN /\ Branch(w, Handler("ValueError"))
              /\ UNCHANGED <<fut, work_queue>>
         ELSE /\ budget' = [budget EXCEPT ![w] = timeout]
              /\ fut' = [fut EXCEPT ![w] = "pending"]
              /\ work_queue' = Append(work_queue, w)
              /\ gpc' = [gpc EXCEPT ![w] = "wait"]
              /\ UNCHANGED <<gpath, gstep, elapsed, retVars>>
    /\ UNCHANGED <<outsidePG, reg, statVars, epc, generating>>

\* Mutant: future.result() without a timeout.
ExpiredNever(w) == FALSE

\* the timeout of future.result(timeout=config.generation_timeout) is
\* over; a timeout of zero or less is over at once
Expired(w) == elapsed[w] >= budget[w]

\* A tick of the clock while w waits in future.result.
GenTick(w) ==
    /\ gpc[w] = "wait"
    /\ ~FutDone(w)
    /\ elapsed[w] < budget[w]
    /\ elapsed' = [elapsed EXCEPT ![w] = @ + 1]
    /\ UNCHANGED <<outsidePG, gpc, gpath, gstep, reg, budget, ncalls,
                   statVars, futVars, retVars>>

\* future.cancel() of a caller that stops waiting: a pending future is
\* cancelled and its item stays in the queue, a running call runs on.
CancelItem(w) == [i \in 1..Len(work_queue) |->
                    IF work_queue[i] = w THEN Cancelled ELSE work_queue[i]]

\* Mutant: the call of a caller that stops waiting is stopped and its
\* thread freed.
AbandonStops(w) == [t \in ExecThreads |-> IF epc[t] = w THEN 0 ELSE epc[t]]

\* The threads of the executor after the caller w has stopped waiting: the
\* call it leaves behind runs on, nobody waits for its result.
Abandon(w) == [t \in ExecThreads |-> IF epc[t] = w THEN Abandoned ELSE epc[t]]

\* future.result(timeout=...) ends (lines 141-143): with the result of the
\* call, with the exception the call raised, or with TimeoutError when the
\* time is over and the call has not ended; the except clause of line 143
\* is entered then, and future.cancel() is still to come.
GenResult(w) ==
    /\ gpc[w] = "wait"
    /\ \/ /\ fut[w] = "result"
          /\ Branch(w, "success")
          /\ fut' = [fut EXCEPT ![w] = "none"]
       \/ /\ fut[w] = "exception"
          /\ Branch(w, Handler("TextGenerationError"))
          /\ fut' = [fut EXCEPT ![w] = "none"]
       \/ /\ ~FutDone(w)
          /\ Expired(w)
          /\ gpc' = [gpc EXCEPT ![w] = "cancel"]
          /\ gpath' = [gpath EXCEPT ![w] = Handler("PostGenerationTimeout")]
          /\ budget' = [budget EXCEPT ![w] = 0]
          /\ elapsed' = [elapsed EXCEPT ![w] = 0]
          /\ UNCHANGED <<gstep, fut, retVars>>
    /\ UNCHANGED <<outsidePG, reg, ncalls, statVars, work_queue, epc,
                   generating>>

\* Mutant: the except clause of line 143 without future.cancel().
CancelQueueKept(w) == work_queue

\* The queue of the executor after future.cancel() (line 144).
CancelQueue(w) == IF fut[w] = "pending" THEN CancelItem(w) ELSE work_queue

\* future.cancel() (line 144), called some time after the TimeoutError: a
\* future that is still pending is cancelled; a call that is running by
\* now, or has ended, is not touched and the caller leaves it behind.
\* The first increment of the timeout branch (line 145) is next.
GenCancel(w) ==
    /\ gpc[w] = "cancel"
    /\ work_queue' = CancelQueue(w)
    /\ epc' = Abandon(w)
    /\ fut' = [fut EXCEPT ![w] = "none"]
    /\ gpc' = [gpc EXCEPT ![w] = "read"]
    /\ gstep' = [gstep EXCEPT ![w] = 1]
    /\ UNCHANGED <<outsidePG, gpath, reg, budget, elapsed, ncalls, statVars,
                   generating, retVars>>

\* `self.generation_stats[c] += 1`, first half: the counter is read.
StatRead(w) ==
    /\ gpc[w] = "read"
    /\ reg' = [reg EXCEPT ![w] =
                  generation_stats[Increments(gpath[w])[gstep[w]]]]
    /\ gpc' = [gpc EXCEPT ![w] = "write"]
    /\ UNCHANGED <<outsidePG, gpath, gstep, budget, elapsed, ncalls,
                   statVars, futVars, retVars>>

\* `self.generation_stats[c] += 1`, second half: the value read, plus one,
\* is stored.  After the last increment the timeout and the failed branch
\* return; the success branch goes on to the average.
StatWrite(w) ==
    /\ gpc[w] = "write"
    /\ generation_stats' =
           [generation_stats EXCEPT
               ![Increments(gpath[w])[gstep[w]]] = reg[w] + 1]
    /\ reg' = [reg EXCEPT ![w] = 0]
    /\ IF gstep[w] < Len(Increments(gpath[w]))
       THEN /\ gstep' = [gstep EXCEPT ![w] = @ + 1]
            /\ gpc' = [gpc EXCEPT ![w] = "read"]
            /\ UNCHANGED <<gpath, budget, elapsed, retVars>>
       ELSE IF gpath[w] = "success"
       THEN /\ gpc' = [gpc EXCEPT ![w] = "avg"]
            /\ UNCHANGED <<gpath, gstep, budget, elapsed, retVars>>
       ELSE Return(w, gpath[w])
    /\ UNCHANGED <<outsidePG, ncalls, average_generation_time, futVars>>

\* Lines 270-271: total_time = average * (total_generated - 1), then
\* average = (total_time + generation_time) / total_generated, in exact
\* arithmetic; then the success result is returned.
AvgUpdate(w) ==
    /\ gpc[w] = "avg"
    /\ average_generation_time' =
           Reduced(average_generation_time[1]
                       * (generation_stats["total_generated"] - 1)
                     + elapsed[w] * average_generation_time[2],
                   average_generation_time[2]
                       * generation_stats["total_generated"])
    /\ Return(w, "success")
    /\ UNCHANGED <<outsidePG, reg, ncalls, generation_stats, futVars>>

GenStep(w) ==
    \/ GenTick(w)
    \/ GenResult(w)
    \/ GenCancel(w)
    \/ StatRead(w)
    \/ StatWrite(w)
    \/ AvgUpdate(w)

\* A thread of the executor takes the next work item; an item whose future
\* was cancelled is dropped, any other begins to run generate_text.
ExecTake(t) ==
    /\ epc[t] = 0
    /\ work_queue # <<>>
    /\ work_queue' = Tail(work_queue)
    /\ IF Head(work_queue) = Cancelled
       THEN UNCHANGED <<fut, epc, generating>>
       ELSE /\ fut' = [fut EXCEPT ![Head(work_queue)] = "running"]
            /\ epc' = [epc EXCEPT ![t] = Head(work_queue)]
            /\ generating' = generating + 1
    /\ UNCHANGED <<outsidePG, callVars, statVars, retVars>>

\* flan_t5_service.generate_text ends on thread t: it returns its dict or
\* raises TextGenerationError, and the future of a caller that still waits
\* is completed.  A call that never ends never takes this step.
ExecEnd(t) ==
    /\ epc[t] # 0
    /\ IF epc[t] = Abandoned
       THEN fut' = fut
       ELSE \E r \in {"result", "exception"} :
                fut' = [fut EXCEPT ![epc[t]] = r]
    /\ epc' = [epc EXCEPT ![t] = 0]
    /\ generating' = generating - 1
    /\ UNCHANGED <<outsidePG, callVars, statVars, work_queue, retVars>>

ExecStep(t) == ExecTake(t) \/ ExecEnd(t)

\* ------------------------------------------------------- FlanT5Service
\* Mutant: load_model without `with self._loading_lock`.
LockFreeAlways(c) == TRUE

\* threading.Lock.acquire by thread c succeeds
LockFree(c) == loading_lock = 0

\* load_model is called on thread c.
LoadCall(c) ==
    /\ lpc[c] = "idle"
    /\ nloads < MaxCalls
    /\ nloads' = nloads + 1
    /\ lpc' = [lpc EXCEPT ![c] = "acquire"]
    /\ lstatus' = [lstatus EXCEPT ![c] = "none"]
    /\ UNCHANGED <<outsideLoad, loading_lock, model_loaded, model_loads, lret>>

\* `with self._loading_lock` (line 116) is entered, which waits while
\* another thread holds the lock.
LoadAcquire(c) ==
    /\ lpc[c] = "acquire"
    /\ LockFree(c)
    /\ loading_lock' = c
    /\ lpc' = [lpc EXCEPT ![c] = "check"]
    /\ UNCHANGED <<outsideLoad, model_loaded, lstatus, nloads, model_loads,
                   lret>>

\* load_model ends on thread c as st; leaving the with block releases the
\* lock (if c holds it).
LoadReturn(c, st) ==
    /\ lpc' = [lpc EXCEPT ![c] = "idle"]
    /\ lstatus' = [lstatus EXCEPT ![c] = st]
    /\ lret' = [lret EXCEPT ![st] = @ + 1]
    /\ loading_lock' = IF loading_lock = c THEN 0 ELSE loading_lock

\* `if self._model_loaded: return {'status': 'already_loaded', ...}`
\* (lines 117-122); otherwise the try block is entered.
LoadCheck(c) ==
    /\ lpc[c] = "check"
    /\ IF model_loaded
       THEN LoadReturn(c, "already_loaded")
       ELSE /\ lpc' = [lpc EXCEPT ![c] = "loading"]
            /\ UNCHANGED <<loading_lock, lstatus, lret>>
    /\ UNCHANGED <<outsideLoad, model_loaded, nloads, model_loads>>

\* The try block (lines 124-186): tokenizer and model are loaded and
\* _model_loaded set, then 'loaded' is returned; or one of the loading
\* steps raises, which `except Exception` turns into ModelLoadingError
\* with _model_loaded as it was.  What follows line 171 is a log line and
\* the construction of the dict.
LoadEnd(c) ==
    /\ lpc[c] = "loading"
    /\ \E ok \in BOOLEAN :
         IF ok
         THEN /\ model_loaded' = TRUE
              /\ model_loads' = model_loads + 1
              /\ LoadReturn(c, "loaded")
         ELSE /\ LoadReturn(c, "ModelLoadingError")
              /\ UNCHANGED <<model_loaded, model_loads>>
    /\ UNCHANGED <<outsideLoad, nloads>>

load_model(c) ==
    \/ LoadCall(c)
    \/ LoadAcquire(c)
    \/ LoadCheck(c)
    \/ LoadEnd(c)

\* self.generation_config.max_length after lines 292-294 of a call with
\* the argument max_length = m: `config` is the service's own object, not
\* a copy, and the argument is stored in it.
ConfigAfter(m) == IF m # None THEN m ELSE generation_config

\* generate_text is called on thread c with some max_length argument:
\* the prompt is validated and the config updated (lines 285-303).
GenTextCall(c) ==
    /\ tpc[c] = "idle"
    /\ ngen < MaxCalls
    /\ ngen' = ngen + 1
    /\ \E m \in MaxLengthArgs :
         /\ targ' = [targ EXCEPT ![c] = m]
         /\ generation_config' = ConfigAfter(m)
    /\ tused' = [tused EXCEPT ![c] = None]
    /\ tpc' = [tpc EXCEPT ![c] = "context"]
    /\ UNCHANGED outsideGen

\* `with self._generation_context()` (lines 305, 249-251): without a
\* loaded model TextGenerationError is raised and the call ends; with one
\* the call goes on to model.generate.
GenTextContext(c) ==
    /\ tpc[c] = "context"
    /\ tpc' = [tpc EXCEPT ![c] = IF model_loaded THEN "generate" ELSE "idle"]
    /\ UNCHANGED <<outsideGen, generation_config, targ, tused, ngen>>

\* model.generate(..., max_length=config.max_length, ...) (lines 316-330)
\* reads the service's config object, and the call returns its dict.
GenTextGenerate(c) ==
    /\ tpc[c] = "generate"
    /\ tused' = [tused EXCEPT ![c] = generation_config]
    /\ tpc' = [tpc EXCEPT ![c] = "idle"]
    /\ UNCHANGED <<outsideGen, generation_config, targ, ngen>>

generate_text(c) ==
    \/ GenTextCall(c)
    \/ GenTextContext(c)
    \/ GenTextGenerate(c)

\* ------------------------------------------- generate_multiple_posts
\* generate_multiple_posts(content, tones, base_config) is called:
\* `results = []` (line 338).
MultiCall ==
    /\ mpc = "idle"
    /\ \E ts \in ToneLists, b \in Tones \cup {NoConfig} :
         /\ tones' = ts
         /\ base_config' = b
         /\ base_at_call' = b
    /\ results' = <<>>
    /\ mtone' = NoConfig
    /\ mpc' = "config"
    /\ UNCHANGED outsideMulti

\* base_config after `config = base_config or PostGenerationConfig()` and
\* `config.tone = tone` (lines 341-342): a PostGenerationConfig object is
\* true, so config is the caller's object whenever one was given, and the
\* assignment writes the tone into it.
ConfigFor(b, tone) == IF b # NoConfig THEN tone ELSE b

\* The head of one iteration of `for tone in tones` (lines 340-342), or
\* the end of the loop and `return results` (line 360).
MultiConfig ==
    /\ mpc = "config"
    /\ IF Len(results) < Len(tones)
       THEN /\ mtone' = tones[Len(results) + 1]
            /\ base_config' = ConfigFor(base_config, tones[Len(results) + 1])
            /\ mpc' = "generate"
       ELSE /\ mpc' = "returned"
            /\ UNCHANGED <<mtone, base_config>>
    /\ UNCHANGED <<outsideMulti, tones, base_at_call, results>>

\* self.generate_post(content, config) returns a result with one of its
\* three statuses, which is appended (lines 345-346); were it left by an
\* exception, the except clause would append a 'failed' entry (351-358).
MultiGenerate ==
    /\ mpc = "generate"
    /\ \E st \in {"success", "timeout", "failed"} :
         results' = Append(results, <<mtone, st>>)
    /\ mpc' = "config"
    /\ UNCHANGED <<outsideMulti, tones, base_config, base_at_call, mtone>>

generate_multiple_posts == MultiCall \/ MultiConfig \/ MultiGenerate

\* --------------------------------------------------------- PostStorage
\* get_post(post_id): data.get(post_id) of the file's dict, with Absent
\* for the None of a post id that is not there
get_post(i) == data_file[i]

\* Mutant: the operations without `with self._file_lock`.
FileLockFreeAlways(c) == TRUE

\* threading.Lock.acquire by thread c succeeds
FileLockFree(c) == file_lock = 0

\* save_post, update_post or delete_post is called on thread c.
StoreCall(c) ==
    /\ stpc[c] = "idle"
    /\ nstore < MaxCalls
    /\ nstore' = nstore + 1
    /\ \E o \in StoreOps :
         /\ o.op = "save_post" =>
               next_post + Cardinality({e \in Workers :
                                          sop[e].op = "save_post"
                                            /\ stpc[e] \in {"acquire", "read"}})
                 < MaxPosts
         /\ sop' = [sop EXCEPT ![c] = o]
    /\ stpc' = [stpc EXCEPT ![c] = "acquire"]
    /\ UNCHANGED <<outsideStore, file_lock, data_file, sdata, next_post,
                   nsaved, expected>>

\* `with self._file_lock` (lines 173, 273, 308) is entered, which waits
\* while another thread holds the lock.
StoreAcquire(c) ==
    /\ stpc[c] = "acquire"
    /\ FileLockFree(c)
    /\ file_lock' = c
    /\ stpc' = [stpc EXCEPT ![c] = "read"]
    /\ UNCHANGED <<outsideStore, data_file, sop, sdata, nstore, next_post,
                   nsaved, expected>>

\* The operation of c ends; leaving the with block releases the lock (if
\* c holds it).
StoreReturn(c) ==
    /\ stpc' = [stpc EXCEPT ![c] = "idle"]
    /\ sop' = [sop EXCEPT ![c] = NoOp]
    /\ sdata' = [sdata EXCEPT ![c] = [i \in PostIds |-> Absent]]
    /\ file_lock' = IF file_lock = c THEN 0 ELSE file_lock

\* save_post makes its post id (line 176); `data = self._read_data()`
\* (lines 198, 275, 310); update_post and delete_post return False when
\* the post id is not in data (lines 277-279, 312-314).
StoreRead(c) ==
    /\ stpc[c] = "read"
    /\ IF sop[c].op = "save_post"
       THEN /\ next_post' = next_post + 1
            /\ sop' = [sop EXCEPT ![c].id = next_post + 1]
            /\ sdata' = [sdata EXCEPT ![c] = data_file]
            /\ stpc' = [stpc EXCEPT ![c] = "write"]
            /\ UNCHANGED file_lock
       ELSE IF data_file[sop[c].id] = Absent
       THEN /\ StoreReturn(c)
            /\ UNCHANGED next_post
       ELSE /\ sdata' = [sdata EXCEPT ![c] = data_file]
            /\ stpc' = [stpc EXCEPT ![c] = "write"]
            /\ UNCHANGED <<next_post, sop, file_lock>>
    /\ UNCHANGED <<outsideStore, data_file, nstore, nsaved, expected>>

\* what the operation o makes of the dict d (lines 204, 285, 320)
Applied(o, d) ==
    CASE o.op = "save_post" -> [d EXCEPT ![o.id] = NewPost]
      [] o.op = "update_post" ->
             IF d[o.id] = Absent THEN d
             ELSE [d EXCEPT ![o.id] = [@ EXCEPT ![o.platform] = "regenerated"]]
      [] o.op = "delete_post" -> [d EXCEPT ![o.id] = Absent]
      [] OTHER -> d

\* The local dict is changed and written with _write_data, which replaces
\* the file in one os.replace (lines 204-207, 285-289, 320-323), and the
\* operation returns.
StoreWrite(c) ==
    /\ stpc[c] = "write"
    /\ data_file' = Applied(sop[c], sdata[c])
    /\ expected' = Applied(sop[c], expected)
    /\ nsaved' = IF sop[c].op = "save_post" THEN nsaved + 1 ELSE nsaved
    /\ StoreReturn(c)
    /\ UNCHANGED <<outsideStore, nstore, next_post>>

PostStorage(c) ==
    \/ StoreCall(c)
    \/ StoreAcquire(c)
    \/ StoreRead(c)
    \/ StoreWrite(c)

\* ---------------------------------------------------------------- Next
Next ==
    \/ submit_job
    \/ run_sync_in_worker
    \/ \E j \in JobIds : RunSyncReturn(j)
    \/ \E w \in Workers : WorkerStep(w)
    \/ ShutdownCall
    \/ ShutdownStop
    \/ ShutdownJoin

Spec == Init /\ [][Next]_vars

\* The same program, with shutdown() called while jobs are waiting and the
\* history variable submittedAtShutdown kept.
NextH ==
    \/ submit_job
    \/ run_sync_in_worker
    \/ \E j \in JobIds : RunSyncReturn(j)
    \/ \E w \in Workers : WorkerStep(w)
    \/ ShutdownCallH
    \/ ShutdownStop
    \/ ShutdownJoin

SpecH == Init /\ [][NextH]_vars

\* The pool used through submit_job, with the clock of the jobs and the
\* history variable begunAfterStop.
NextT ==
    \/ submit_job
    \/ \E w \in Workers : WorkerStepT(w)
    \/ \E j \in JobIds : JobOverrun(j)
    \/ ShutdownCall
    \/ ShutdownStop
    \/ ShutdownJoin

SpecT == Init /\ [][NextT]_vars

\* load_model called by several threads, concurrently and repeatedly.
NextLoad == \E c \in Workers : load_model(c)

SpecLoad == Init /\ [][NextLoad]_vars

\* The service used by several threads: load_model and generate_text.
NextFlan ==
    \/ \E c \in Workers : load_model(c)
    \/ \E c \in Workers : generate_text(c)

SpecFlan == Init /\ [][NextFlan]_vars

\* One generate_multiple_posts call, with any tones and base_config.
NextMulti == generate_multiple_posts

SpecMulti == Init /\ [][NextMulti]_vars

\* save_post, update_post and delete_post called by several threads.
NextStore == \E c \in Workers : PostStorage(c)

SpecStore == Init /\ [][NextStore]_vars

\* Threads that can run are scheduled: every worker thread, a released
\* caller, and the thread inside shutdown() keep taking steps.  Submissions
\* and the call of shutdown() are up to the environment.
FairSpec ==
    /\ Spec
    /\ \A w \in Workers : WF_vars(WorkerStep(w))
    /\ \A j \in JobIds : WF_vars(RunSyncReturn(j))
    /\ WF_vars(ShutdownStop)
    /\ WF_vars(ShutdownJoin)

TypeOK ==
    /\ stop \in [Workers -> BOOLEAN]
    /\ wpc \in [Workers -> {"loop", "get", "start", "func", "set", "stopped"}]
    /\ cur \in [Workers -> 0..MaxJobs]
    /\ njobs \in 0..MaxJobs
    /\ unfinished \in 0..MaxJobs
    /\ jobs \in [JobIds -> {"none", "plain", "bridge"}]
    /\ outcome \in [JobIds -> {"none", "ok", "raised"}]
    /\ spc \in {"idle", "stop", "join", "returned", "raised"}
    /\ sidx \in Workers

\* generate_post called by the workers of the pool, concurrently.
NextPG ==
    \/ \E w \in Workers : generate_post(w)
    \/ \E w \in Workers : GenStep(w)
    \/ \E t \in ExecThreads : ExecStep(t)

SpecPG == Init /\ [][NextPG]_vars

\* generate_post called sequentially: every call is made by worker 1.
NextSeq ==
    \/ generate_post(1)
    \/ GenStep(1)
    \/ \E t \in ExecThreads : ExecStep(t)

SpecSeq == Init /\ [][NextSeq]_vars

\* The thread inside generate_post and the idle threads of the executor
\* are scheduled and the clock ticks; the model call need not end.
FairSpecSeq ==
    /\ SpecSeq
    /\ WF_vars(GenStep(1))
    /\ \A t \in ExecThreads : WF_vars(ExecTake(t))

TypeOKPG ==
    /\ gpc \in [Workers -> {"idle", "wait", "cancel", "read", "write",
                           "avg"}]
    /\ gpath \in [Workers -> {"none", "success", "timeout", "failed"}]
    /\ budget \in [Workers -> Timeouts]
    /\ elapsed \in [Workers -> 0..MaxT]
    /\ ncalls \in 0..MaxCalls
    /\ generation_stats \in [Counters -> 0..(2 * MaxCalls)]
    /\ average_generation_time \in Nat \X (Nat \ {0})
    /\ fut \in [Workers -> {"none", "pending", "running", "result",
                            "exception"}]
    /\ epc \in [ExecThreads -> 0..(K + 1)]
    /\ returns \in [Statuses -> 0..MaxCalls]

\* ============================================================== claims
AllStopped == \A w \in Workers : Stopped(w)

Running == {j \in JobIds : runBy[j] # 0}

\* C1 (as claimed): unless shutdown() is called, every submitted job is
\* eventually executed to its end, and no job is begun more than once.
C1_EveryJobRunsOnce ==
    \A j \in JobIds :
        /\ [](startCount[j] <= 1)
        /\ (Submitted(j) ~> (done[j] \/ spc # "idle"))

\* C2 (as claimed): when the function of a bridged call raised on the
\* worker, the caller is released and run_sync_in_worker returns None.
C2_RaisingCallReturnsNone ==
    \A j \in JobIds :
        (jobs[j] = "bridge" /\ outcome[j] = "raised")
            ~> (callerPc[j] = "returned" /\ ret[j] = None)

\* C3: a bridged call that has returned returned the value its own
\* function produced on the worker, whatever other calls are in flight.
C3_BridgeReturnsOwnValue ==
    \A j \in JobIds :
        callerPc[j] = "returned" => (outcome[j] = "ok" /\ ret[j] = Val(j))

\* C3 witness: a later call has returned its value while an earlier call
\* is still in flight with its slot already written.
C3_Witness ==
    \E i, j \in JobIds :
        /\ i < j
        /\ callerPc[j] = "returned" /\ ret[j] = Val(j)
        /\ callerPc[i] = "wait" /\ container[i] = Val(i)

\* The jobs that were waiting in the queue when shutdown() was called and
\* are waiting still: a job in the queue has never been dequeued, so it
\* was waiting at the call exactly if it was submitted before the call.
LeftFromCall == {j \in 1..submittedAtShutdown : InQueue(j)}

\* C4 (as claimed): when shutdown() has returned, the jobs that were
\* waiting in the queue when shutdown() was called have all been executed:
\* none of them is still waiting.
C4_QueuedJobsAllExecuted ==
    spc = "returned" => LeftFromCall = {}

\* C4 (amended): when shutdown() has returned, every job submitted before
\* shutdown() was called, so every job that was waiting in the queue then,
\* either has been executed to its end, once, or is still waiting in the
\* queue, never begun.
C4_QueuedJobsDoneOrLeft ==
    spc = "returned" =>
        \A j \in 1..submittedAtShutdown :
            IF InQueue(j)
            THEN startCount[j] = 0 /\ ~done[j] /\ runBy[j] = 0
            ELSE startCount[j] = 1 /\ done[j] /\ runBy[j] = 0

\* C4 witness: shutdown() was called with jobs waiting and has returned;
\* one earlier job was executed and a job that waited at the call is
\* still in the queue.
C4_Witness ==
    /\ spc = "returned"
    /\ LeftFromCall # {}
    /\ \E i \in 1..submittedAtShutdown : done[i]

\* C5: when shutdown() has returned, every worker thread has ended, no
\* worker is inside a job, and every job that was begun ran to its end.
C5_ShutdownJoinsWorkers ==
    spc = "returned" =>
        /\ \A w \in Workers : Stopped(w) /\ ~Executing(w) /\ cur[w] = 0
        /\ \A j \in JobIds : startCount[j] > 0 => (done[j] /\ runBy[j] = 0)

\* C5 witness: shutdown() has returned after its workers ran jobs, one of
\* which raised.
C5_Witness ==
    /\ spc = "returned"
    /\ \E i, j \in JobIds : outcome[i] = "ok" /\ outcome[j] = "raised"

\* C6: a job submitted after shutdown() has returned is never begun by
\* any worker.
C6_LateJobNeverRuns ==
    \A j \in JobIds : late[j] => (startCount[j] = 0 /\ runBy[j] = 0 /\ ~done[j])

\* C6 witness: a job submitted after shutdown() returned sits in the queue.
C6_Witness ==
    \E j \in JobIds : late[j] /\ InQueue(j) /\ spc = "returned"

\* C7 (as claimed): a bridged call whose job is left in the queue of a
\* pool that has been shut down does not stay blocked: the caller gets an
\* outcome.
C7_DroppedCallIsReleased ==
    \A j \in JobIds :
        (callerPc[j] = "wait" /\ InQueue(j) /\ AllStopped
            /\ \A w \in Workers : stop[w])
            ~> (callerPc[j] # "wait")

\* C8 (as claimed): a worker thread has ended only if stop() was requested
\* on it, and until shutdown() is called all K workers are alive.
C8_WorkerEndsOnlyOnStop ==
    /\ \A w \in Workers : Stopped(w) => stop[w]
    /\ spc = "idle" => Cardinality({w \in Workers : ~Stopped(w)}) = K

\* C9 (as claimed): when the callable of a job raises, the worker that ran
\* it marks the job done and returns to polling the queue.
C9_RaisingJobKeepsWorker ==
    [][\A w \in Workers :
          (wpc[w] = "func" /\ outcome'[cur[w]] = "raised")
              => (done'[cur[w]] /\ wpc'[w] = "loop")]_vars

\* C10: a worker executes at most one job at a time, so at most K jobs
\* are executing at once.
C10_AtMostOneJobPerWorker ==
    /\ \A w \in Workers : Cardinality({j \in JobIds : runBy[j] = w}) <= 1
    /\ Cardinality(Running) <= K

\* C10 witness: all K workers are executing and a further job waits.
C10_Witness ==
    /\ Cardinality(Running) = K
    /\ job_queue # <<>>

\* The worker that has taken job j from the queue and has not finished it
\* (0: none).
HeldBy(j) == IF \E w \in Workers : cur[w] = j
             THEN CHOOSE w \in Workers : cur[w] = j ELSE 0

\* C11 (as claimed): jobs begin executing in the order they were
\* submitted: when a job has begun executing, every job submitted before
\* it has begun executing too.
C11_BeginInSubmitOrder ==
    \A a, b \in JobIds :
        (a < b /\ startCount[b] > 0) => startCount[a] > 0

\* C11 (amended): jobs leave the queue in the order they were submitted:
\* the queue holds the jobs submitted last, in submission order, so a job
\* is dequeued, and begins executing, only after every job submitted
\* before it has been dequeued; the earlier job, taken by another worker,
\* may not have begun executing yet.
C11_DequeueInSubmitOrder ==
    /\ \A i \in 1..Len(job_queue) :
           job_queue[i] = njobs - Len(job_queue) + i
    /\ \A a, b \in JobIds :
           (a < b /\ (startCount[b] > 0 \/ HeldBy(b) # 0)) => ~InQueue(a)

\* C11 witness: the later job has begun executing while the earlier one,
\* dequeued before it by another worker, has not begun yet; a third job
\* still waits in the queue.
C11_Witness ==
    \E a, b \in JobIds :
        /\ a < b
        /\ startCount[b] > 0
        /\ startCount[a] = 0 /\ HeldBy(a) # 0 /\ wpc[HeldBy(a)] = "start"
        /\ job_queue # <<>>

\* C12: for each bridged call the slot is written at most once and the
\* event is set at most once, the slot is written before the event is
\* set, so whenever the event is set the slot holds the value the call's
\* function returned, and a released caller has read a written slot.
C12_SlotWrittenBeforeSignal ==
    /\ [](\A j \in JobIds :
            /\ startCount[j] <= 1
            /\ completed[j] => container[j] = Val(j)
            /\ callerPc[j] = "returned" => (completed[j] /\ ret[j] # None))
    /\ [][\A j \in JobIds :
            /\ container'[j] # container[j] =>
                   (container[j] = None /\ ~completed[j] /\ ~completed'[j])
            /\ completed'[j] # completed[j] =>
                   (~completed[j] /\ container[j] = Val(j)
                       /\ container'[j] = container[j])]_vars

\* C12 witness: one call has its event set and its caller not yet
\* released, another has its slot written and its event not yet set.
C12_Witness ==
    \E i, j \in JobIds :
        /\ completed[i] /\ callerPc[i] = "wait" /\ container[i] = Val(i)
        /\ ~completed[j] /\ container[j] = Val(j) /\ callerPc[j] = "wait"

Inside == {w \in Workers : gpc[w] # "idle"}

\* C14: every generate_post call returns exactly one outcome and none is
\* left by an exception: 'success' when generate_text returned within the
\* timeout, 'timeout' when the time was over before the call ended,
\* 'failed' when generate_text or the validation of the content raised;
\* the status returned is that of the branch taken.
C14_OneOutcomePerCall ==
    /\ [](returns["propagated"] = 0)
    /\ [](returns["success"] + returns["timeout"] + returns["failed"]
              + Cardinality(Inside) = ncalls)
    /\ [][\A w \in Workers :
            /\ (gpc[w] = "wait" /\ gpc'[w] # "wait") =>
                 /\ gpath'[w] \in {"success", "timeout", "failed"}
                 /\ gpath'[w] = "success" <=>
                        (fut[w] = "result"
                            /\ (elapsed[w] <= budget[w] \/ elapsed[w] = 0))
                 /\ gpath'[w] = "failed" <=> fut[w] = "exception"
                 /\ gpath'[w] = "timeout" <=>
                        (~FutDone(w) /\ elapsed[w] >= budget[w])
            /\ (gpc[w] = "idle" /\ gpc'[w] \notin {"idle", "wait"}) =>
                 gpath'[w] = "failed"
            /\ (gpc[w] # "idle" /\ gpc'[w] = "idle") =>
                 returns' = [returns EXCEPT ![gpath[w]] = @ + 1]]_vars

\* C14 witness: calls have returned with each of the three outcomes.
C14_Witness ==
    /\ returns["success"] > 0
    /\ returns["timeout"] > 0
    /\ returns["failed"] > 0

\* C15: a worker inside generate_post eventually leaves it, whether the
\* model call ends or not.
C15_GeneratePostReturns ==
    \A w \in Workers : (gpc[w] # "idle") ~> (gpc[w] = "idle")

\* C15 witness: a call has returned 'timeout' and the worker is back while
\* every thread of the executor is still inside a model call whose caller
\* has left.
C15_Witness ==
    /\ returns["timeout"] >= max_workers
    /\ Inside = {}
    /\ \A t \in ExecThreads : epc[t] = Abandoned

\* C16 (as claimed): when no call is in progress, total_generated is the
\* number of calls made, successful + timeout + failed = total_generated,
\* and each of the three counters is the number of calls that returned
\* that status.
C16_CountersMatchOutcomes ==
    Inside = {} =>
        /\ generation_stats["total_generated"] = ncalls
        /\ generation_stats["successful"] + generation_stats["timeout"]
               + generation_stats["failed"]
             = generation_stats["total_generated"]
        /\ generation_stats["successful"] = returns["success"]
        /\ generation_stats["timeout"] = returns["timeout"]
        /\ generation_stats["failed"] = returns["failed"]

\* C17 (as claimed): after sequential calls, average_generation_time is
\* the arithmetic mean of the generation times of the successful calls.
C17_AverageIsMeanOfSuccesses ==
    (Inside = {} /\ returns["success"] > 0) =>
        average_generation_time[1] * returns["success"]
            = success_time * average_generation_time[2]

\* C18 (as claimed): a call with config.generation_timeout <= 0 submits
\* nothing to the executor, so it never waits for a future, and it takes
\* the failed branch.
C18_NonPositiveTimeoutFailsFast ==
    /\ [](\A w \in Workers : gpc[w] = "wait" => budget[w] > 0)
    /\ [][\A w \in Workers :
            (gpc[w] = "wait" /\ budget[w] <= 0 /\ gpc'[w] # "wait") =>
                gpath'[w] = "failed"]_vars

\* C19 (as claimed): when the calls made have all returned, in whatever
\* interleaving they ran, total_generated is their number.
C19_NoCounterUpdateLost ==
    Inside = {} => generation_stats["total_generated"] = ncalls

\* C20: the model calls of generate_post run on the threads of the
\* PostGenerator's executor only, never on the calling worker, and at
\* most max_workers of them are in progress at once.
C20_AtMostTwoGenerationCalls ==
    /\ [](generating <= max_workers)
    /\ [](\A w \in Workers :
            fut[w] = "running" => \E t \in ExecThreads : epc[t] = w)
    /\ [][generating' > generating =>
            /\ callVars' = callVars
            /\ \E t \in ExecThreads : epc[t] = 0 /\ epc'[t] # 0]_vars

\* C20 witness: two model calls are in progress, a third is waiting in the
\* executor's queue, and every worker is inside generate_post.
C20_Witness ==
    /\ generating = max_workers
    /\ work_queue # <<>>
    /\ Inside = Workers

\* every thread of the executor is inside a call whose caller has left
AllAbandoned == \A t \in ExecThreads : epc[t] = Abandoned

\* C21: when the time is over while the model call is running, the caller
\* goes on to the timeout outcome although the call has not ended, and the
\* call stays on its executor thread until it ends by itself.  While every
\* executor thread is inside such a call, a further call that submitted
\* its model call finds it not started, takes the timeout branch with the
\* item cancelled, and does return.
C21_TimedOutCallRunsOn ==
    /\ [](\A w \in Workers :
            (gpc[w] = "wait" /\ AllAbandoned) => fut[w] = "pending")
    /\ [][\A w \in Workers :
            /\ (gpc[w] = "wait" /\ gpc'[w] = "cancel") =>
                  /\ ~FutDone(w)
                  /\ gpath'[w] = "timeout"
                  /\ epc' = epc /\ generating' = generating
            /\ (gpc[w] = "cancel" /\ gpc'[w] # "cancel") =>
                  /\ generating' = generating
                  /\ \A t \in ExecThreads :
                        /\ (epc[t] = w) => (epc'[t] = Abandoned)
                        /\ (epc[t] # w) => (epc'[t] = epc[t])
                  /\ AllAbandoned => (\A i \in 1..Len(work_queue') :
                                          work_queue'[i] # w)
            /\ (gpc[w] = "wait" /\ gpc'[w] # "wait" /\ AllAbandoned) =>
                  gpc'[w] = "cancel"]_vars
    /\ [][\A t \in ExecThreads :
            epc[t] = Abandoned =>
                \/ epc'[t] = Abandoned
                \/ epc'[t] = 0 /\ generating' = generating - 1
                      /\ callVars' = callVars]_vars
    /\ \A w \in Workers :
          (gpc[w] = "wait" /\ AllAbandoned) ~>
              (gpath[w] = "timeout" \/ ~AllAbandoned)

\* C21 witness: a call made while both executor threads were inside
\* abandoned calls has returned 'timeout' like the two before it, the two
\* calls are still running, and its own item was cancelled unstarted.
C21_Witness ==
    /\ AllAbandoned
    /\ generating = max_workers
    /\ returns["timeout"] = max_workers + 1
    /\ Inside = {}

\* C22 (as claimed): the model call of a caller whose future.result has
\* timed out before the call started is never started afterwards: an
\* executor thread begins only calls whose caller is still waiting.
C22_TimedOutPendingNeverRuns ==
    [][\A t \in ExecThreads :
         (epc[t] = 0 /\ epc'[t] # 0) => gpc[epc'[t]] = "wait"]_vars

\* C22 (amended): a future that is still pending when future.cancel() is
\* called is cancelled: its item is not run, neither then nor later, an
\* executor thread begins only calls whose future is pending, and the
\* calls left behind running are those that had started by the time of
\* future.cancel().
C22_CancelledPendingNeverRuns ==
    /\ [](\A w \in Workers : \A i \in 1..Len(work_queue) :
            work_queue[i] = w => fut[w] = "pending")
    /\ [][\A t \in ExecThreads :
               (epc[t] = 0 /\ epc'[t] # 0) =>
                   /\ epc'[t] = Head(work_queue)
                   /\ epc'[t] \in Workers
                   /\ fut[epc'[t]] = "pending"
                   /\ gpc[epc'[t]] \in {"wait", "cancel"}]_vars
    /\ [][(work_queue # <<>> /\ work_queue' = Tail(work_queue)
                 /\ Head(work_queue) = Cancelled) =>
                   /\ epc' = epc /\ generating' = generating]_vars
    /\ [][\A w \in Workers :
               (gpc[w] = "cancel" /\ gpc'[w] # "cancel") =>
                   /\ (fut[w] = "pending") =>
                         (/\ epc' = epc
                          /\ Len(work_queue') = Len(work_queue)
                          /\ \A i \in 1..Len(work_queue) :
                                work_queue'[i] =
                                    IF work_queue[i] = w THEN Cancelled
                                    ELSE work_queue[i])
                   /\ \A t \in ExecThreads :
                         (epc'[t] = Abandoned /\ epc[t] # Abandoned) =>
                             (epc[t] = w /\ fut[w] = "running")]_vars

\* C22 witness: the caller has returned 'timeout', the item of its call
\* is in the executor's queue, cancelled, while a model call left behind
\* by an earlier caller is running and another thread is idle.
C22_Witness ==
    /\ returns["timeout"] >= 2
    /\ work_queue # <<>>
    /\ Head(work_queue) = Cancelled
    /\ \E t \in ExecThreads : epc[t] = Abandoned
    /\ \E t \in ExecThreads : epc[t] = 0
    /\ Inside = {}

\* C23 (as claimed): shutdown() never ends with an exception, and once it
\* has been called it returns, the jobs in progress ending by themselves.
C23_ShutdownReturnsNormally ==
    /\ [](spc # "raised")
    /\ (spc \in {"stop", "join"}) ~> (spc = "returned")

\* The HTTP status that regenerate_post answers for the request whose
\* generation step is the bridged call j (0: no response yet): after
\* run_sync_in_worker returned a dict the handler goes on to its 200
\* answer; result.get('text') on None raises AttributeError, which
\* `except Exception` answers with 500.
Response(j) ==
    IF callerPc[j] # "returned" THEN 0
    ELSE IF ret[j] = None THEN 500
    ELSE 200

\* C25 (as claimed): a regenerate-post request whose generate_text call
\* raised inside the worker is answered with status 500.
C25_RaisingGenerationAnswers500 ==
    \A j \in JobIds :
        (jobs[j] = "bridge" /\ outcome[j] = "raised") ~> (Response(j) = 500)

\* C24: a worker whose stop flag is set begins at most one further job,
\* one that it took, or was about to take, from the queue when it last
\* found the flag clear; at its next check of the flag it ends, and a
\* worker that has ended takes nothing from the queue.
C24_AtMostOneJobAfterStop ==
    /\ [](\A w \in Workers :
            /\ begunAfterStop[w] <= 1
            /\ (stop[w] /\ wpc[w] \in {"get", "start"}) =>
                   begunAfterStop[w] = 0)
    /\ [][\A w \in Workers :
            /\ (stop[w] /\ wpc[w] = "loop" /\ wpc'[w] # "loop") =>
                   (wpc'[w] = "stopped" /\ job_queue' = job_queue)
            /\ (cur[w] = 0 /\ cur'[w] # 0) =>
                   (wpc[w] = "get" /\ begunAfterStop[w] = 0)
            /\ (wpc[w] = "stopped") =>
                   (wpc'[w] = "stopped" /\ cur'[w] = cur[w])
            /\ (begunAfterStop'[w] # begunAfterStop[w]) =>
                   (wpc[w] = "start" /\ wpc'[w] = "func")]_vars

\* C24 witness: a worker began a job after its stop flag was set, has
\* finished it and ended, and a job is left in the queue.
C24_Witness ==
    \E w \in Workers :
        /\ begunAfterStop[w] = 1
        /\ Stopped(w)
        /\ job_queue # <<>>
        /\ \E j \in JobIds : done[j] /\ outcome[j] = "ok"

\* C26: the passing of a job's timeout changes nothing in the pool; a job
\* that a worker has dequeued stays with that worker, which does nothing
\* but run it, until the callable returns or raises, however long that
\* takes; no job is ever reported as timed out.
C26_JobTimeoutHasNoEffect ==
    /\ [](\A j \in JobIds :
            /\ outcome[j] \in {"none", "ok", "raised"}
            /\ (overdue[j] /\ ~done[j]) =>
                   /\ runBy[j] \in Workers
                   /\ wpc[runBy[j]] = "func"
                   /\ cur[runBy[j]] = j)
    /\ [][\A j \in JobIds :
            /\ (overdue'[j] # overdue[j]) => (poolVars' = poolVars)
            /\ (runBy[j] # 0 /\ runBy'[j] = 0) =>
                   /\ done'[j]
                   /\ outcome'[j] \in {"ok", "raised"}
                   /\ overdue'[j] = overdue[j]
            /\ (runBy[j] # 0 /\ runBy'[j] # 0) =>
                   /\ runBy'[j] = runBy[j]
                   /\ cur'[runBy[j]] = j
                   /\ wpc'[runBy[j]] = "func"]_vars

\* C26 witness: a job ran past its timeout and then ended by returning,
\* while another overdue job is still running on its worker.
C26_Witness ==
    \E i, j \in JobIds :
        /\ overdue[i] /\ outcome[i] = "ok" /\ done[i]
        /\ overdue[j] /\ ~done[j] /\ runBy[j] # 0

\* the threads inside load_model, and those of them inside its with block
Loading == {c \in Workers : lpc[c] # "idle"}

Holding == {c \in Workers : lpc[c] \in {"check", "loading"}}

\* C27: however many threads call load_model, at once or one after the
\* other, at most one of them is past the lock at a time, the model is
\* loaded at most once, one call at most returns 'loaded' and it is the
\* one that loaded the model, every call made once the model is loaded
\* returns 'already_loaded', and a call whose load fails leaves the
\* service not loaded and the lock free, so that a later call loads.
C27_LoadModelOnce ==
    /\ [](/\ model_loads <= 1
          /\ lret["loaded"] = model_loads
          /\ model_loaded <=> (model_loads = 1)
          /\ lret["already_loaded"] > 0 => model_loaded
          /\ Cardinality(Holding) <= 1
          /\ Holding = {} <=> (loading_lock = 0)
          /\ \A c \in Holding : loading_lock = c
          /\ lret["loaded"] + lret["already_loaded"]
                + lret["ModelLoadingError"] + Cardinality(Loading) = nloads)
    /\ [][\A c \in Workers :
            /\ (lpc[c] # "idle" /\ lpc'[c] = "idle" /\ model_loaded) =>
                   lstatus'[c] = "already_loaded"
            /\ (lpc[c] # "idle" /\ lpc'[c] = "idle"
                  /\ lstatus'[c] = "ModelLoadingError") =>
                   (~model_loaded' /\ loading_lock' = 0
                      /\ model_loads' = model_loads)]_vars

\* C27 witness: a load failed, a later call loaded the model while
\* another thread was waiting for the lock, and that thread's call
\* returned 'already_loaded'.
C27_Witness ==
    /\ lret["ModelLoadingError"] = 1
    /\ lret["loaded"] = 1
    /\ lret["already_loaded"] = 1
    /\ \E c, e \in Workers : /\ lstatus[c] = "loaded"
                              /\ lstatus[e] = "already_loaded"

\* C28 (as claimed): the max_length that a generate_text call gives to
\* model.generate is its own argument, or the default of the service if
\* the call omitted it, whatever other calls passed.
C28_ParametersApplyToOneCall ==
    \A c \in Workers :
        tused[c] # None =>
            tused[c] = IF targ[c] = None THEN DefaultMaxLength ELSE targ[c]

\* C29 (as claimed): when generate_multiple_posts has returned, results
\* holds one entry per tone asked for, in the order of tones, and the
\* caller's base_config is as it was when the call was made.
C29_BaseConfigUnchanged ==
    mpc = "returned" =>
        /\ Len(results) = Len(tones)
        /\ \A i \in 1..Len(tones) : results[i][1] = tones[i]
        /\ base_config = base_at_call

\* the threads inside the with block of a PostStorage operation
InFile == {c \in Workers : stpc[c] \in {"read", "write"}}

\* C30: the operations read, change and write the file one at a time,
\* under the lock; the save_post calls that returned got distinct post
\* ids, and get_post finds every post saved and not deleted since, with
\* every update that returned in it: the file is what the operations
\* that returned make of the empty file, applied one after the other.
C30_StorageIsThreadSafe ==
    /\ [](/\ Cardinality(InFile) <= 1
          /\ \A c \in InFile : file_lock = c
          /\ InFile = {} <=> (file_lock = 0)
          /\ data_file \in Files
          /\ data_file = expected
          /\ \A i \in PostIds :
                expected[i] # Absent => get_post(i) = expected[i]
          /\ nsaved = Cardinality({i \in PostIds :
                                     i <= next_post /\ ~\E c \in Workers :
                                         sop[c].id = i
                                           /\ sop[c].op = "save_post"})
          /\ \A c \in Workers : stpc[c] = "write" => sdata[c] = data_file)
    /\ [][\A c \in Workers :
            (stpc[c] = "write" /\ stpc'[c] = "idle") =>
                \A i \in PostIds :
                    i # sop[c].id => data_file'[i] = data_file[i]]_vars

\* C30 witness: two save_post calls made at the same time have returned,
\* both posts are in the file, and an update of one of them, made while
\* the second save was in progress, is in the file too.
C30_Witness ==
    /\ nsaved = MaxPosts
    /\ \A i \in PostIds : get_post(i) # Absent
    /\ \E i \in PostIds, pf \in Platforms :
          get_post(i)[pf] = "regenerated"
    /\ \A c \in Workers : stpc[c] = "idle"

====
